---- MODULE Spec2Model ----
(***************************************************************************)
(* A model of node-visca's src/visca-serial.ts: the ViscaCommand object    *)
(* (constructor, packet encoder/decoder, acknowledge/complete/error        *)
(* lifecycle, catalog builders) and the SerialTransport that frames the    *)
(* byte stream and hands decoded commands to its listeners.                *)
(*                                                                         *)
(* One ViscaCommand object is followed from its creation on.  LifeSpec     *)
(* drives its lifecycle handlers, CodecSpec its encoder, its decoder and   *)
(* the catalog builders, UsageSpec all of its methods together;            *)
(* TransportSpec drives one SerialTransport and the ports it creates.      *)
(***************************************************************************)
EXTENDS Integers, Sequences, FiniteSets

VARIABLES
    cmd,      \* the ViscaCommand object under study (its fields)
    calls,    \* the callbacks and parser calls made so far, in order
    hist,     \* the handler invocations delivered so far, in order
    op,       \* the last operation applied ("none" before any)
    built,    \* how the object was made: by which constructor, from what
    packet,   \* the value returned by the last toPacket() call
    decoded,  \* what fromPacket made of that packet at the far end, if done
    wire,     \* the bytes handed to the decoder / arrived on the link
    emitted,  \* the 'data' events emitted by SerialTransport.onData
    transport, \* the SerialTransport object (its fields), if one was made
    ports,    \* the SerialPort objects created so far, in order of creation
    raised    \* the exception the last operation ended with, if any

vars == <<cmd, calls, hist, op, built, packet, decoded, wire, emitted,
          transport, ports, raised>>

----------------------------------------------------------------------------
(* Bounds of the model. *)

\* longest payload (data) of a constructed command
MaxData == 2
\* most handler invocations delivered to one command
MaxSteps == 3
\* most SerialPort objects one transport creates
MaxPorts == 3
\* most packets written to one port
MaxWrites == 2

----------------------------------------------------------------------------
(* Protocol constants of ./constants (imported as C; the file is not part *)
(* of src/, the values are those of the wire format).                      *)

MSGTYPE_COMMAND == 1
MSGTYPE_INQUIRY == 9
MSGTYPE_CANCEL == 32
MSGTYPE_ADDRESS_SET == 48
MSGTYPE_NETCHANGE == 56
MSGTYPE_ACK == 64
MSGTYPE_COMPLETE == 80
MSGTYPE_ERROR == 96

HEADERMASK_SOURCE == 112
HEADERMASK_RECIPIENT == 7
HEADERMASK_BROADCAST == 8

DATATYPE_INTERFACE == 0
DATATYPE_CAMERA == 4
DATATYPE_OPERATION == 6

CAM_POWER == 0
CAM_MEMORY == 63
DATA_ONVAL == 2
DATA_OFFVAL == 3
DATA_MEMORY_RESET == 0
DATA_MEMORY_SET == 1
DATA_MEMORY_RECALL == 2

OP_PAN_ABSOLUTE == 2
OP_PAN_RELATIVE == 3

CAM_ZOOM == 7
CAM_FOCUS == 8
CAM_ZOOM_DIRECT == 71
CAM_FOCUS_DIRECT == 72
CAM_RGAIN == 3
CAM_BGAIN == 4
CAM_GAIN == 12
CAM_SHUTTER == 10
CAM_SHUTTER_DIRECT == 74
CAM_IRIS == 11
CAM_IRIS_DIRECT == 75
CAM_APERTURE == 2
CAM_APERTURE_DIRECT == 66
CAM_EXP_COMP_DIRECT == 78
CAM_ID_WRITE == 34
DATA_RESET == 0
DATA_MORE == 2
DATA_LESS == 3

\* the terminator literal 0xff of toPacket / raw / the Delimiter
Terminator == 255
\* the status the constructor sets
Pending == 0
\* the literal of _header: 0x88
BroadcastHeader == 136
\* the literal of _header: 0b10000000
AddressedBase == 128
\* the literal of _header: 0x111 (hexadecimal, = 273)
RecipientMaskLiteral == 273
\* the literal of cmdCameraGain: 0x40, added to a gain opcode for its direct form
GainDirectOffset == 64
\* the literal of cmdCameraZoom / cmdCameraFocus: 0b111, the speed mask
SpeedMask == 7

----------------------------------------------------------------------------
(* JavaScript's integer operators on the values that occur here.  The      *)
(* operands are below 2^16 in magnitude, so 16 bits of two's complement    *)
(* give the same result as JavaScript's 32.                                *)

ToBits(x) == x % 65536

RECURSIVE AndBits(_, _)
AndBits(a, b) ==
    IF a = 0 \/ b = 0 THEN 0
    ELSE (a % 2) * (b % 2) + 2 * AndBits(a \div 2, b \div 2)

RECURSIVE OrBits(_, _)
OrBits(a, b) ==
    IF a = 0 THEN b
    ELSE IF b = 0 THEN a
    ELSE (IF (a % 2) + (b % 2) > 0 THEN 1 ELSE 0) + 2 * OrBits(a \div 2, b \div 2)

\* a & b
BitAnd(a, b) == AndBits(ToBits(a), ToBits(b))
\* a | b
BitOr(a, b) == OrBits(ToBits(a), ToBits(b))

RECURSIVE Pow2(_)
Pow2(n) == IF n = 0 THEN 1 ELSE 2 * Pow2(n - 1)

\* a << n and a >> n, for a >= 0
ShiftLeft(a, n) == a * Pow2(n)
ShiftRight(a, n) == a \div Pow2(n)

----------------------------------------------------------------------------
(* JavaScript values that cross the callback boundary.                     *)

Val(k, v, s) == [kind |-> k, v |-> v, s |-> s]
\* the value undefined
Undefined == Val("undefined", <<>>, "")
\* a call made with no argument at all
NoArg == Val("none", <<>>, "")
\* a number[]
Bytes(b) == Val("bytes", b, "")
\* a number
Scalar(n) == Val("number", <<n>>, "")
\* a boolean
Bool(b) == Val("boolean", <<>>, IF b THEN "true" ELSE "false")
\* a string
Str(s) == Val("string", <<>>, s)

Call(f, a) == [fn |-> f, arg |-> a]

\* the calls of log made to f
RECURSIVE Filter(_, _)
Filter(log, f) ==
    IF log = <<>> THEN <<>>
    ELSE IF Head(log).fn = f THEN <<Head(log)>> \o Filter(Tail(log), f)
    ELSE Filter(Tail(log), f)

\* all sequences over S of length at most n
RECURSIVE SeqsUpTo(_, _)
SeqsUpTo(S, n) ==
    IF n = 0 THEN {<<>>}
    ELSE LET shorter == SeqsUpTo(S, n - 1)
         IN shorter \cup {Append(s, x) : s \in {t \in shorter : Len(t) = n - 1}, x \in S}

----------------------------------------------------------------------------
(* The numeric codec of ./utils (not part of src/): a 16-bit quantity is   *)
(* written as four bytes, one nibble each, most significant first; a       *)
(* signed one goes through its 16-bit two's complement.                    *)

\* utils.i2v: 0xPQRS -> [0x0P, 0x0Q, 0x0R, 0x0S]
i2v(value) ==
    <<(value \div 4096) % 16, (value \div 256) % 16, (value \div 16) % 16, value % 16>>

\* utils.si2v: the signed form
si2v(value) == i2v(IF value < 0 THEN value + 65536 ELSE value)

\* utils.v2i: the four nibbles recombined
v2i(v) == v[1] * 4096 + v[2] * 256 + v[3] * 16 + v[4]

\* utils.v2si: recombined and read as two's complement
v2si(v) == IF v2i(v) >= 32768 THEN v2i(v) - 65536 ELSE v2i(v)

----------------------------------------------------------------------------
(* The ViscaCommand object.                                                *)

\* a description: its text, and the values a template interpolates into it
Description(text, values) == [text |-> text, keys |-> values]

\* _makeDescription: the names of the constants equal to msgType, dataType
\* and data[0], looked up by value
makeDescription(c) ==
    [text |-> "(msg, type, command)",
     keys |-> <<c.msgType, c.dataType>> \o (IF Len(c.data) > 0 THEN <<c.data[1]>> ELSE <<>>)]

\* n.toString(16), as the sequence of its hexadecimal digits
RECURSIVE toString16(_)
toString16(n) ==
    LET digit == <<"0", "1", "2", "3", "4", "5", "6", "7",
                   "8", "9", "a", "b", "c", "d", "e", "f">>
    IN IF n < 16 THEN <<digit[n + 1]>>
       ELSE Append(toString16(n \div 16), digit[(n % 16) + 1])

\* _hexify: one hexadecimal numeral per element (joined by ' ')
hexify(data) == [i \in 1..Len(data) |-> toString16(data[i])]

\* _header, the value it leaves in this.broadcast: recipient overrides broadcast
headerBroadcast(c) == IF c.recipient > -1 THEN FALSE ELSE c.broadcast

\* _header, the value it returns
header(c) ==
    IF ~headerBroadcast(c)
    THEN BitOr(BitOr(AddressedBase, ShiftLeft(c.source, 4)),
               BitAnd(c.recipient, RecipientMaskLiteral))
    ELSE BroadcastHeader

\* the object after a call of _header
afterHeader(c) == [c EXCEPT !.broadcast = headerBroadcast(c)]

\* toPacket, the value it returns
toPacket(c) ==
    LET h  == header(c)
        qq == BitOr(c.msgType, c.socket)
        rr == c.dataType
    IN IF rr > 0
       THEN <<h, qq, rr>> \o c.data \o <<Terminator>>
       ELSE <<h, qq>> \o c.data \o <<Terminator>>

\* the constructor's parameters, with their defaults
DefaultParams ==
    [source |-> 0, recipient |-> -1, broadcast |-> TRUE,
     description |-> Description("", <<>>),
     msgType |-> MSGTYPE_COMMAND, socket |-> 0, dataType |-> 0, data |-> <<>>,
     onComplete |-> FALSE, onError |-> FALSE, onAck |-> FALSE,
     dataParser |-> "NoParser"]

\* new ViscaCommand( p ): the fields are copied, status is 0, and the packet is
\* encoded once for packetHexString (which runs _header)
New(p) ==
    LET c == [source |-> p.source, recipient |-> p.recipient,
              broadcast |-> p.broadcast, msgType |-> p.msgType,
              socket |-> p.socket, dataType |-> p.dataType, data |-> p.data,
              packetHexString |-> <<>>, status |-> Pending,
              description |-> p.description,
              dataParser |-> p.dataParser, onAck |-> p.onAck,
              onComplete |-> p.onComplete, onError |-> p.onError]
    IN [afterHeader(c) EXCEPT !.packetHexString = hexify(toPacket(c))]

\* packet[i] of JavaScript (0-based); -1 stands for undefined
Elem(p, i) == IF i < Len(p) THEN p[i + 1] ELSE -1
\* ToInt32 of such an element: undefined becomes 0
ToInt32(x) == IF x = -1 THEN 0 ELSE x

\* Array.prototype.slice( start, end )
slice(a, start, end) ==
    LET len  == Len(a)
        from == IF start < 0 THEN (IF len + start > 0 THEN len + start ELSE 0)
                ELSE (IF start < len THEN start ELSE len)
        to   == IF end < 0 THEN (IF len + end > 0 THEN len + end ELSE 0)
                ELSE (IF end < len THEN end ELSE len)
    IN IF from < to THEN SubSeq(a, from + 1, to) ELSE <<>>

\* _parsePacket with the category byte split off every non-empty body
parsePacketSplitAlways(c, pkt) ==
    LET hd    == ToInt32(Elem(pkt, 0))
        b1    == Elem(pkt, 1)
        plain == b1 \in {MSGTYPE_COMMAND, MSGTYPE_INQUIRY,
                         MSGTYPE_ADDRESS_SET, MSGTYPE_NETCHANGE}
        body  == slice(pkt, 2, Len(pkt) - 1)
    IN [c EXCEPT
          !.packetHexString = hexify(pkt),
          !.source    = ShiftRight(BitAnd(hd, HEADERMASK_SOURCE), 4),
          !.recipient = BitAnd(hd, HEADERMASK_RECIPIENT),
          !.broadcast = (ShiftRight(BitAnd(hd, HEADERMASK_BROADCAST), 3) = 1),
          !.msgType   = IF plain THEN b1 ELSE BitAnd(ToInt32(b1), 240),
          !.socket    = IF plain THEN 0 ELSE BitAnd(ToInt32(b1), 15),
          !.data      = IF Len(body) < 1 THEN body ELSE Tail(body),
          !.dataType  = IF Len(body) < 1 THEN 0 ELSE Head(body)]

\* _parsePacket: the object after parsing packet into it
parsePacket(c, pkt) ==
    LET hd    == ToInt32(Elem(pkt, 0))
        b1    == Elem(pkt, 1)
        plain == b1 \in {MSGTYPE_COMMAND, MSGTYPE_INQUIRY,
                         MSGTYPE_ADDRESS_SET, MSGTYPE_NETCHANGE}
        body  == slice(pkt, 2, Len(pkt) - 1)
    IN [c EXCEPT
          !.packetHexString = hexify(pkt),
          !.source    = ShiftRight(BitAnd(hd, HEADERMASK_SOURCE), 4),
          !.recipient = BitAnd(hd, HEADERMASK_RECIPIENT),
          !.broadcast = (ShiftRight(BitAnd(hd, HEADERMASK_BROADCAST), 3) = 1),
          !.msgType   = IF plain THEN b1 ELSE BitAnd(ToInt32(b1), 240),
          !.socket    = IF plain THEN 0 ELSE BitAnd(ToInt32(b1), 15),
          !.data      = IF Len(body) < 2 THEN body ELSE Tail(body),
          !.dataType  = IF Len(body) < 2 THEN 0 ELSE Head(body)]

\* ViscaCommand.fromPacket
fromPacket(pkt) == parsePacket(New(DefaultParams), pkt)

----------------------------------------------------------------------------
(* Response parsers of ./parsers (not part of src/): functions from the    *)
(* raw payload bytes to a typed result.  NoParser, the default, returns    *)
(* its argument; the other two stand for the parsers the inquiries plug    *)
(* in, one giving a number (or undefined for no bytes), one a boolean.     *)

Parsers == {"NoParser", "ByteValParser", "IsOnParser"}

Parse(parser, raw) ==
    CASE parser = "NoParser" -> raw
      [] parser = "ByteValParser" ->
            IF Len(raw.v) > 0 THEN Scalar(raw.v[1]) ELSE Undefined
      [] parser = "IsOnParser" -> Bool(Len(raw.v) > 0 /\ raw.v[1] = DATA_ONVAL)

\* data == undefined || data.length == 0
NoData(d) == d.kind = "undefined" \/ (d.kind = "bytes" /\ Len(d.v) = 0)

----------------------------------------------------------------------------
(* The SerialTransport object and the SerialPort objects it creates.       *)
(*                                                                         *)
(* A SerialPort opens asynchronously after its construction; isOpen is     *)
(* true from the end of the opening to the start of the closing.  Its      *)
(* constructor throws when it is given no path.  start() registers         *)
(* this.onOpen, this.onClose and this.onError on the port as plain         *)
(* function values, so the port calls them with itself as `this`: their    *)
(* assignment to started lands on the port object, and their emit() is the *)
(* port's own emit of the same event, which calls the same listener again  *)
(* without end until the call stack overflows.                             *)

\* no SerialTransport has been constructed
NoTransport == "none"
\* the value of this.serialport before any assignment: undefined
NoPort == 0
\* the operation returned normally
NotRaised == [by |-> "none", error |-> "none"]
\* the operation by ended with exception error
Raised(by, error) == [by |-> by, error |-> error]

\* a new SerialPort: opening, nothing written, no started property
NewPort == [state |-> "opening", written |-> <<>>, started |-> "unset", failing |-> FALSE]

\* serialport.isOpen
isOpen(p) == p.state = "open"

\* new SerialPort({ path, baudRate }) throws when path is empty
ConstructorThrows(t) == t.portname = ""

\* start(): the transport and the ports afterwards; the exception of the
\* SerialPort constructor is caught and leaves this.serialport as it was
start(t, ps) ==
    IF t.started \/ ConstructorThrows(t)
    THEN [transport |-> t, ports |-> ps, raised |-> NotRaised]
    ELSE [transport |-> [t EXCEPT !.serialport = Len(ps) + 1],
          ports     |-> Append(ps, NewPort),
          raised    |-> NotRaised]

\* new SerialTransport( portname ): started = false, then start()
NewTransport(portname) ==
    start([portname |-> portname, started |-> FALSE, serialport |-> NoPort], <<>>)

\* SerialPort.close(): an open port starts closing; on any other port the
\* call fails with 'Port is not open', reported later as an 'error' event
portClose(p) ==
    IF isOpen(p) THEN [p EXCEPT !.state = "closing"] ELSE [p EXCEPT !.failing = TRUE]

\* close(): this.serialport.close(), then started = false; with no port
\* the property read of undefined throws
close(t, ps) ==
    IF t.serialport = NoPort
    THEN [transport |-> t, ports |-> ps, raised |-> Raised("close", "TypeError")]
    ELSE [transport |-> [t EXCEPT !.started = FALSE],
          ports     |-> [ps EXCEPT ![t.serialport] = portClose(@)],
          raised    |-> NotRaised]

\* restart(): close(), then start() unless close() threw
restart(t, ps) ==
    LET c == close(t, ps)
    IN IF c.raised # NotRaised THEN c ELSE start(c.transport, c.ports)

\* write( viscaCommand ): the ports, the command and the outcome afterwards
write(t, ps, c) ==
    IF t.serialport = NoPort
    THEN [ports |-> ps, cmd |-> c, raised |-> Raised("write", "TypeError")]
    ELSE IF ~isOpen(ps[t.serialport])
    THEN [ports |-> ps, cmd |-> c, raised |-> NotRaised]
    ELSE [ports  |-> [ps EXCEPT ![t.serialport].written = Append(@, toPacket(c))],
          cmd    |-> afterHeader(c),
          raised |-> NotRaised]

\* ViscaCommand.send( transport ): transport.write( this )
send(c, t, ps) == write(t, ps, c)

\* onOpen, onClose and onError as the port calls them, this being the port:
\* the port afterwards
onOpen(p) == [p EXCEPT !.started = "true"]
onClose(p) == [p EXCEPT !.started = "false"]
onError(p) == [p EXCEPT !.started = "false"]

----------------------------------------------------------------------------
(* The lifecycle handlers.  Each gives the object and the call log after   *)
(* the call.                                                               *)

\* handleAck storing the acknowledgement in msgType
handleAckSetsMsgType(c, log) ==
    [cmd   |-> [c EXCEPT !.msgType = MSGTYPE_ACK],
     calls |-> IF c.onAck THEN Append(log, Call("onAck", NoArg)) ELSE log]

handleAck(c, log) ==
    [cmd   |-> [c EXCEPT !.status = MSGTYPE_ACK],
     calls |-> IF c.onAck THEN Append(log, Call("onAck", NoArg)) ELSE log]

handleError(c, log, err) ==
    [cmd   |-> [c EXCEPT !.status = MSGTYPE_ERROR],
     calls |-> IF c.onError THEN Append(log, Call("onError", err)) ELSE log]

\* the mutation of handleComplete that passes an empty result on to onComplete
handleCompleteNoEmptyCheck(c, log, data) ==
    LET parse  == c.dataParser # "undefined" /\ data # Undefined
        log1   == IF parse THEN Append(log, Call("dataParser", data)) ELSE log
        result == IF parse THEN Parse(c.dataParser, data) ELSE data
    IN [cmd   |-> [c EXCEPT !.status = MSGTYPE_COMPLETE],
        calls |-> IF c.onComplete
                  THEN IF result.kind = "undefined"
                       THEN Append(log1, Call("onComplete", NoArg))
                       ELSE Append(log1, Call("onComplete", result))
                  ELSE log1]

handleComplete(c, log, data) ==
    LET parse  == c.dataParser # "undefined" /\ data # Undefined
        log1   == IF parse THEN Append(log, Call("dataParser", data)) ELSE log
        result == IF parse THEN Parse(c.dataParser, data) ELSE data
    IN [cmd   |-> [c EXCEPT !.status = MSGTYPE_COMPLETE],
        calls |-> IF c.onComplete
                  THEN IF NoData(result)
                       THEN Append(log1, Call("onComplete", NoArg))
                       ELSE Append(log1, Call("onComplete", result))
                  ELSE log1]

----------------------------------------------------------------------------
(* LifeSpec: one command, built by the constructor, receives any sequence  *)
(* of handleAck / handleError / handleComplete calls.                      *)

\* the commands whose lifecycle is followed: a camera command or inquiry to
\* device 1 or broadcast, with any subset of the callbacks and any parser
LifeParams ==
    {[DefaultParams EXCEPT !.recipient = r, !.msgType = m,
                           !.dataType = DATATYPE_CAMERA, !.data = <<CAM_POWER>>,
                           !.onAck = a, !.onComplete = k, !.onError = e,
                           !.dataParser = q] :
        r \in {-1, 1}, m \in {MSGTYPE_COMMAND, MSGTYPE_INQUIRY},
        a \in BOOLEAN, k \in BOOLEAN, e \in BOOLEAN, q \in Parsers}

\* what a reply can carry into handleComplete: nothing, or its payload bytes
CompleteInputs ==
    {Undefined, Bytes(<<>>), Bytes(<<DATA_ONVAL>>), Bytes(<<DATA_ONVAL, DATA_OFFVAL>>)}

\* the error texts handed to handleError
ErrorInputs == {Str("syntax error")}

Invocation(h, a) == [h |-> h, arg |-> a]

Made(by, from) == [by |-> by, from |-> from]

LifeInit ==
    /\ \E p \in LifeParams : cmd = New(p) /\ built = Made("constructor", p)
    /\ calls = <<>>
    /\ hist = <<>>
    /\ op = "new"
    /\ packet = <<>>
    /\ decoded = <<>>
    /\ wire = <<>>
    /\ emitted = <<>>
    /\ transport = NoTransport
    /\ ports = <<>>
    /\ raised = NotRaised

HandleAck ==
    /\ Len(hist) < MaxSteps
    /\ LET r == handleAck(cmd, calls)
       IN cmd' = r.cmd /\ calls' = r.calls
    /\ hist' = Append(hist, Invocation("handleAck", NoArg))
    /\ op' = "handleAck"
    /\ UNCHANGED <<built, packet, decoded, wire, emitted>>
    /\ UNCHANGED <<transport, ports, raised>>

HandleError ==
    /\ Len(hist) < MaxSteps
    /\ \E err \in ErrorInputs :
         /\ LET r == handleError(cmd, calls, err)
            IN cmd' = r.cmd /\ calls' = r.calls
         /\ hist' = Append(hist, Invocation("handleError", err))
    /\ op' = "handleError"
    /\ UNCHANGED <<built, packet, decoded, wire, emitted>>
    /\ UNCHANGED <<transport, ports, raised>>

HandleComplete ==
    /\ Len(hist) < MaxSteps
    /\ \E data \in CompleteInputs :
         /\ LET r == handleComplete(cmd, calls, data)
            IN cmd' = r.cmd /\ calls' = r.calls
         /\ hist' = Append(hist, Invocation("handleComplete", data))
    /\ op' = "handleComplete"
    /\ UNCHANGED <<built, packet, decoded, wire, emitted>>
    /\ UNCHANGED <<transport, ports, raised>>

LifeNext == HandleAck \/ HandleError \/ HandleComplete

LifeSpec == LifeInit /\ [][LifeNext]_vars

----------------------------------------------------------------------------
(* The rest of the object's methods, and the catalog.                      *)

\* toString: fills in an empty description and refreshes packetHexString
\* (which runs _header); the object afterwards
afterToString(c) ==
    LET d == IF c.description.text = "" THEN [c EXCEPT !.description = makeDescription(c)]
             ELSE c
    IN [afterHeader(d) EXCEPT !.packetHexString = hexify(toPacket(d))]

\* ViscaCommand.cmd
cmdOf(recipient, dataType, data, description) ==
    New([DefaultParams EXCEPT !.msgType = MSGTYPE_COMMAND, !.dataType = dataType,
                              !.recipient = recipient, !.data = data,
                              !.description = description])

\* ViscaCommand.cmdCamera
cmdCamera(recipient, data, description) ==
    cmdOf(recipient, DATATYPE_CAMERA, data, description)

cmdCameraPresetReset(device, preset) ==
    cmdCamera(device, <<CAM_MEMORY, DATA_MEMORY_RESET, preset>>,
              Description("camera preset reset", <<preset>>))

cmdCameraPresetSet(device, preset) ==
    cmdCamera(device, <<CAM_MEMORY, DATA_MEMORY_SET, preset>>,
              Description("camera preset set", <<preset>>))

cmdCameraPresetRecall(device, preset) ==
    cmdCamera(device, <<CAM_MEMORY, DATA_MEMORY_RECALL, preset>>,
              Description("camera preset recall", <<preset>>))

\* ViscaCommand.cmdOp
cmdOp(recipient, data, description) ==
    cmdOf(recipient, DATATYPE_OPERATION, data, description)

\* cmdCameraPanTiltDirect with the two coordinates in the other order
cmdCameraPanTiltDirectSwapped(device, xspeed, yspeed, x, y, relative) ==
    LET xpos   == si2v(x)
        ypos   == si2v(y)
        absrel == IF relative THEN OP_PAN_RELATIVE ELSE OP_PAN_ABSOLUTE
    IN cmdOp(device, <<absrel, xspeed, yspeed>> \o ypos \o xpos,
             Description("camera pan/tilt direct", <<>>))

\* ViscaCommand.cmdCameraPanTiltDirect
cmdCameraPanTiltDirect(device, xspeed, yspeed, x, y, relative) ==
    LET xpos   == si2v(x)
        ypos   == si2v(y)
        absrel == IF relative THEN OP_PAN_RELATIVE ELSE OP_PAN_ABSOLUTE
    IN cmdOp(device, <<absrel, xspeed, yspeed>> \o xpos \o ypos,
             Description("camera pan/tilt direct", <<>>))

\* ViscaCommand.cmdCameraZoom; speed -1 is the default (no speed given)
cmdCameraZoom(device, offinout, speed) ==
    LET data == IF speed > -1 /\ offinout # DATA_RESET
                THEN ShiftLeft(offinout, 8) + BitAnd(speed, SpeedMask)
                ELSE offinout
    IN cmdCamera(device, <<CAM_ZOOM, data>>, Description("", <<>>))

\* ViscaCommand.cmdCameraFocus: the opcode it puts first is C.CAM_ZOOM
cmdCameraFocus(device, stopfarnear, speed) ==
    LET data == IF speed > -1 /\ stopfarnear # DATA_RESET
                THEN ShiftLeft(stopfarnear, 8) + BitAnd(speed, SpeedMask)
                ELSE stopfarnear
    IN cmdCamera(device, <<CAM_ZOOM, data>>, Description("", <<>>))

\* ViscaCommand.cmdCameraZoomDirect
cmdCameraZoomDirect(device, zoomval) ==
    cmdCamera(device, <<CAM_ZOOM_DIRECT>> \o i2v(zoomval), Description("", <<>>))

\* ViscaCommand.cmdCameraFocusDirect
cmdCameraFocusDirect(device, focusval) ==
    cmdCamera(device, <<CAM_FOCUS_DIRECT>> \o i2v(focusval), Description("", <<>>))

\* ViscaCommand.cmdCameraGain; directvalue -1 is the default
cmdCameraGain(device, mode, resetupdown, directvalue) ==
    LET gaintype == CASE mode = "r" -> CAM_RGAIN
                      [] mode = "b" -> CAM_BGAIN
                      [] OTHER -> CAM_GAIN
        subcmd   == IF directvalue > 0
                    THEN <<gaintype + GainDirectOffset>> \o i2v(directvalue)
                    ELSE <<gaintype, resetupdown>>
    IN cmdCamera(device, subcmd, Description("", <<>>))

\* ViscaCommand.cmdCameraExposureCompensationDirect
cmdCameraExposureCompensationDirect(device, directval) ==
    cmdCamera(device, <<CAM_EXP_COMP_DIRECT>> \o i2v(directval), Description("", <<>>))

\* ViscaCommand.cmdCameraShutter; directvalue -1 is the default
cmdCameraShutter(device, resetupdown, directvalue) ==
    cmdCamera(device,
              IF directvalue > -1 THEN <<CAM_SHUTTER_DIRECT>> \o i2v(directvalue)
              ELSE <<CAM_SHUTTER, resetupdown>>,
              Description("", <<>>))

\* ViscaCommand.cmdCameraIris
cmdCameraIris(device, resetupdown, directvalue) ==
    cmdCamera(device,
              IF directvalue > -1 THEN <<CAM_IRIS_DIRECT>> \o i2v(directvalue)
              ELSE <<CAM_IRIS, resetupdown>>,
              Description("", <<>>))

\* ViscaCommand.cmdCameraAperture
cmdCameraAperture(device, resetupdown, directvalue) ==
    cmdCamera(device,
              IF directvalue > -1 THEN <<CAM_APERTURE_DIRECT>> \o i2v(directvalue)
              ELSE <<CAM_APERTURE, resetupdown>>,
              Description("", <<>>))

\* ViscaCommand.cmdCameraIDWrite
cmdCameraIDWrite(device, data) ==
    cmdCamera(device, <<CAM_ID_WRITE>> \o i2v(data), Description("", <<>>))

\* the direct-value builders of the catalog, by name
DirectBuilders ==
    {"cmdCameraZoomDirect", "cmdCameraFocusDirect", "cmdCameraGainDirect",
     "cmdCameraGainRDirect", "cmdCameraGainBDirect",
     "cmdCameraExposureCompensationDirect", "cmdCameraShutterDirect",
     "cmdCameraIrisDirect", "cmdCameraApertureDirect", "cmdCameraIDWrite"}

\* ViscaCommand[ name ]( device, value ) for a direct-value builder; the
\* gain, shutter, iris and aperture ones pass their fixed arguments on
\* (cmdCameraGainDirect passes mode 'r')
CallDirect(name, device, value) ==
    CASE name = "cmdCameraZoomDirect" -> cmdCameraZoomDirect(device, value)
      [] name = "cmdCameraFocusDirect" -> cmdCameraFocusDirect(device, value)
      [] name = "cmdCameraGainDirect" -> cmdCameraGain(device, "r", 0, value)
      [] name = "cmdCameraGainRDirect" -> cmdCameraGain(device, "r", 0, value)
      [] name = "cmdCameraGainBDirect" -> cmdCameraGain(device, "b", 0, value)
      [] name = "cmdCameraExposureCompensationDirect" ->
            cmdCameraExposureCompensationDirect(device, value)
      [] name = "cmdCameraShutterDirect" -> cmdCameraShutter(device, DATA_RESET, value)
      [] name = "cmdCameraIrisDirect" -> cmdCameraIris(device, DATA_RESET, value)
      [] name = "cmdCameraApertureDirect" -> cmdCameraAperture(device, DATA_RESET, value)
      [] name = "cmdCameraIDWrite" -> cmdCameraIDWrite(device, value)

\* the zoom and focus drive builders of the catalog, by name
DriveBuilders ==
    {"cmdCameraZoom", "cmdCameraZoomStop", "cmdCameraZoomIn", "cmdCameraZoomOut",
     "cmdCameraFocus", "cmdCameraFocusStop", "cmdCameraFocusFar", "cmdCameraFocusNear"}

\* ViscaCommand[ name ]( device, ... ) for a drive builder; the Stop, In,
\* Out, Far and Near builders pass their fixed direction on, Stop with the
\* default speed
CallDrive(name, device, direction, speed) ==
    CASE name = "cmdCameraZoom" -> cmdCameraZoom(device, direction, speed)
      [] name = "cmdCameraZoomStop" -> cmdCameraZoom(device, DATA_RESET, -1)
      [] name = "cmdCameraZoomIn" -> cmdCameraZoom(device, DATA_MORE, speed)
      [] name = "cmdCameraZoomOut" -> cmdCameraZoom(device, DATA_LESS, speed)
      [] name = "cmdCameraFocus" -> cmdCameraFocus(device, direction, speed)
      [] name = "cmdCameraFocusStop" -> cmdCameraFocus(device, DATA_RESET, -1)
      [] name = "cmdCameraFocusFar" -> cmdCameraFocus(device, DATA_MORE, speed)
      [] name = "cmdCameraFocusNear" -> cmdCameraFocus(device, DATA_LESS, speed)

\* ViscaCommand.cancel
cancel(recipient, socket) ==
    New([DefaultParams EXCEPT !.msgType = BitOr(MSGTYPE_CANCEL, socket),
                              !.recipient = recipient,
                              !.description = Description("cancel command in buffer",
                                                          <<socket>>)])

\* cmdCameraPower with the on and off values exchanged
cmdCameraPowerInverted(device, enable) ==
    cmdCamera(device, <<CAM_POWER, IF enable THEN DATA_OFFVAL ELSE DATA_ONVAL>>,
              Description("camera power", <<>>))

\* ViscaCommand.cmdCameraPower
cmdCameraPower(device, enable) ==
    cmdCamera(device, <<CAM_POWER, IF enable THEN DATA_ONVAL ELSE DATA_OFFVAL>>,
              Description("camera power", <<>>))

----------------------------------------------------------------------------
(* SerialTransport's receive path.                                         *)

\* the Delimiter parser ({ delimiter: [ 0xff ] }) on the bytes of the link:
\* the chunks before each terminator, the terminator left out; bytes after
\* the last terminator stay buffered, and an empty chunk raises no event
RECURSIVE Delimiter(_, _)
Delimiter(stream, pending) ==
    IF stream = <<>> THEN <<>>
    ELSE IF Head(stream) = Terminator
         THEN (IF pending = <<>> THEN <<>> ELSE <<pending>>) \o Delimiter(Tail(stream), <<>>)
         ELSE Delimiter(Tail(stream), Append(pending, Head(stream)))

\* onData on each chunk in turn: the chunk is decoded by fromPacket and the
\* command is emitted as a 'data' event
onData(events, chunks) ==
    events \o [i \in 1..Len(chunks) |-> fromPacket(chunks[i])]

----------------------------------------------------------------------------
(* CodecSpec: one command is made (by the constructor, a catalog builder  *)
(* or fromPacket), then encoded, printed and decoded again; and frames     *)
(* arriving on the link go through the transport's onData.                 *)

Devices == 0..7
Sockets == 0..2
MsgTypes == {MSGTYPE_COMMAND, MSGTYPE_INQUIRY, MSGTYPE_CANCEL, MSGTYPE_ADDRESS_SET,
             MSGTYPE_NETCHANGE, MSGTYPE_ACK, MSGTYPE_COMPLETE, MSGTYPE_ERROR}
DataTypes == {DATATYPE_INTERFACE, DATATYPE_CAMERA}
\* the byte values payloads are made of
PayloadBytes == {CAM_POWER, DATA_ONVAL}
Payloads == SeqsUpTo(PayloadBytes, MaxData)
Presets == 0..255

\* the arguments a drive builder is called with
DriveArgs(name, device, direction, speed) ==
    CASE name \in {"cmdCameraZoom", "cmdCameraFocus"} ->
            [device |-> device, direction |-> direction, speed |-> speed]
      [] name \in {"cmdCameraZoomStop", "cmdCameraFocusStop"} -> [device |-> device]
      [] OTHER -> [device |-> device, speed |-> speed]

\* pan and tilt coordinates: the ends of the signed 16-bit range, zero and
\* its neighbours, and the coordinates of the spec's scenario
Coordinates == {-32768, -100, -1, 0, 1, 200, 32767}
\* pan and tilt speed pairs (pan 1..18, tilt 1..17)
SpeedPairs == {<<10, 8>>, <<1, 1>>, <<18, 17>>}

\* values given to the direct-value builders: the ends of 0..65535, the
\* documented maxima of zoom and focus, and values with distinct nibbles
DirectValues == {0, 1, 255, 4660, 16384, 61440, 65535}
\* the directions of a zoom or focus drive
Directions == {DATA_RESET, DATA_MORE, DATA_LESS}
\* drive speeds 0..7, and -1 for none given
Speeds == -1..7

\* the field combinations the constructor is given: every header (source,
\* recipient, broadcast) with some bodies, and every body (message type,
\* socket, category, payload) under some headers
HeaderParams ==
    {[DefaultParams EXCEPT !.source = s, !.recipient = r, !.broadcast = b,
                           !.msgType = m, !.dataType = DATATYPE_CAMERA,
                           !.data = <<CAM_POWER, DATA_ONVAL>>] :
        s \in Devices, r \in {-1} \cup Devices, b \in BOOLEAN,
        m \in {MSGTYPE_COMMAND, MSGTYPE_INQUIRY}}
BodyParams ==
    {[DefaultParams EXCEPT !.recipient = r, !.msgType = m, !.socket = k,
                           !.dataType = t, !.data = d] :
        r \in {-1, 1}, m \in MsgTypes, k \in Sockets, t \in DataTypes, d \in Payloads}
CodecParams == HeaderParams \cup BodyParams

\* frames as they travel: header (bit 7 set), message byte, body, terminator;
\* every header with some bodies, and every body under some headers
HeaderBytes == {BroadcastHeader} \cup {128 + 16 * s + r : s \in Devices, r \in Devices}
MessageBytes == {MSGTYPE_COMMAND, MSGTYPE_INQUIRY, MSGTYPE_ADDRESS_SET, MSGTYPE_NETCHANGE}
                \cup {m + k : m \in {MSGTYPE_CANCEL, MSGTYPE_ACK, MSGTYPE_COMPLETE,
                                     MSGTYPE_ERROR}, k \in Sockets}
Bodies == SeqsUpTo(PayloadBytes, MaxData + 1)
WellFormedFrames ==
    {<<h, m>> \o b \o <<Terminator>> :
        h \in HeaderBytes, m \in {MSGTYPE_COMMAND, MSGTYPE_COMPLETE},
        b \in {<<>>, <<DATATYPE_CAMERA, CAM_POWER, DATA_ONVAL>>}}
    \cup {<<h, m>> \o b \o <<Terminator>> :
        \* 0x88, and the reply header 0x90 of device 1 to the controller
        h \in {BroadcastHeader, 128 + 16 * 1 + 0}, m \in MessageBytes, b \in Bodies}
\* a frame cut short: every proper prefix of a well-formed frame, and a
\* header directly followed by the terminator
MalformedFrames ==
    UNION {{SubSeq(f, 1, n) : n \in 0..(Len(f) - 1)} : f \in WellFormedFrames}
    \cup {<<h, Terminator>> : h \in HeaderBytes}
Frames == WellFormedFrames \cup MalformedFrames

Malformed(f) == Len(f) < 3 \/ f[Len(f)] # Terminator

CodecInit ==
    /\ cmd = New(DefaultParams)
    /\ built = Made("none", <<>>)
    /\ calls = <<>>
    /\ hist = <<>>
    /\ op = "none"
    /\ packet = <<>>
    /\ decoded = <<>>
    /\ wire = <<>>
    /\ emitted = <<>>
    /\ transport = NoTransport
    /\ ports = <<>>
    /\ raised = NotRaised

\* new ViscaCommand( p )
Construct ==
    /\ op = "none"
    /\ \E p \in CodecParams : cmd' = New(p) /\ built' = Made("constructor", p)
    /\ op' = "new"
    /\ UNCHANGED <<calls, hist, packet, decoded, wire, emitted>>
    /\ UNCHANGED <<transport, ports, raised>>

\* a preset builder of the catalog
BuildPreset ==
    /\ op = "none"
    /\ \E device \in Devices, preset \in Presets :
         \/ /\ cmd' = cmdCameraPresetReset(device, preset)
            /\ built' = Made("cmdCameraPresetReset", <<device, preset>>)
         \/ /\ cmd' = cmdCameraPresetSet(device, preset)
            /\ built' = Made("cmdCameraPresetSet", <<device, preset>>)
         \/ /\ cmd' = cmdCameraPresetRecall(device, preset)
            /\ built' = Made("cmdCameraPresetRecall", <<device, preset>>)
    /\ op' = "builder"
    /\ UNCHANGED <<calls, hist, packet, decoded, wire, emitted>>
    /\ UNCHANGED <<transport, ports, raised>>

\* ViscaCommand.cmdCameraPower( device, enable )
BuildPower ==
    /\ op = "none"
    /\ \E device \in Devices, enable \in BOOLEAN :
         /\ cmd' = cmdCameraPower(device, enable)
         /\ built' = Made("cmdCameraPower", <<device, enable>>)
    /\ op' = "builder"
    /\ UNCHANGED <<calls, hist, packet, decoded, wire, emitted>>
    /\ UNCHANGED <<transport, ports, raised>>

\* ViscaCommand.cancel( recipient, socket )
BuildCancel ==
    /\ op = "none"
    /\ \E recipient \in Devices, socket \in Sockets :
         /\ cmd' = cancel(recipient, socket)
         /\ built' = Made("cancel", <<recipient, socket>>)
    /\ op' = "builder"
    /\ UNCHANGED <<calls, hist, packet, decoded, wire, emitted>>
    /\ UNCHANGED <<transport, ports, raised>>

\* ViscaCommand.cmdCameraPanTiltDirect( device, xspeed, yspeed, x, y, relative )
BuildPanTiltDirect ==
    /\ op = "none"
    /\ \E device \in {1, 3}, sp \in SpeedPairs, x \in Coordinates, y \in Coordinates,
          relative \in BOOLEAN :
         /\ cmd' = cmdCameraPanTiltDirect(device, sp[1], sp[2], x, y, relative)
         /\ built' = Made("cmdCameraPanTiltDirect",
                          [device |-> device, xspeed |-> sp[1], yspeed |-> sp[2],
                           x |-> x, y |-> y, relative |-> relative])
    /\ op' = "builder"
    /\ UNCHANGED <<calls, hist, packet, decoded, wire, emitted>>
    /\ UNCHANGED <<transport, ports, raised>>

\* a direct-value builder of the catalog
BuildDirect ==
    /\ op = "none"
    /\ \E name \in DirectBuilders, device \in {0, 1}, value \in DirectValues :
         /\ cmd' = CallDirect(name, device, value)
         /\ built' = Made(name, [device |-> device, value |-> value])
    /\ op' = "builder"
    /\ UNCHANGED <<calls, hist, packet, decoded, wire, emitted>>
    /\ UNCHANGED <<transport, ports, raised>>

\* a zoom or focus drive builder of the catalog
BuildDrive ==
    /\ op = "none"
    /\ \E name \in DriveBuilders, device \in Devices, direction \in Directions,
          speed \in Speeds :
         /\ cmd' = CallDrive(name, device, direction, speed)
         /\ built' = Made(name, DriveArgs(name, device, direction, speed))
    /\ op' = "builder"
    /\ UNCHANGED <<calls, hist, packet, decoded, wire, emitted>>
    /\ UNCHANGED <<transport, ports, raised>>

\* ViscaCommand.fromPacket( f )
FromPacket ==
    /\ op = "none"
    /\ \E f \in Frames : wire' = f /\ cmd' = fromPacket(f)
    /\ built' = Made("fromPacket", <<>>)
    /\ op' = "fromPacket"
    /\ UNCHANGED <<calls, hist, packet, decoded, emitted>>
    /\ UNCHANGED <<transport, ports, raised>>

\* the bytes of a terminated frame arrive on the link
OnData ==
    /\ op = "none"
    /\ \E f \in {g \in Frames : g # <<>> /\ g[Len(g)] = Terminator} :
         /\ wire' = f
         /\ emitted' = onData(emitted, Delimiter(f, <<>>))
    /\ op' = "onData"
    /\ UNCHANGED <<cmd, built, calls, hist, packet, decoded>>
    /\ UNCHANGED <<transport, ports, raised>>

\* a command has been made (onData makes none that the caller holds)
HasCommand == op \notin {"none", "onData"}

\* cmd.toPacket()
ToPacket ==
    /\ HasCommand
    /\ packet' = toPacket(cmd)
    /\ cmd' = afterHeader(cmd)
    /\ op' = "toPacket"
    /\ UNCHANGED <<built, calls, hist, decoded, wire, emitted>>
    /\ UNCHANGED <<transport, ports, raised>>

\* cmd.toString()
ToString ==
    /\ HasCommand
    /\ cmd' = afterToString(cmd)
    /\ op' = "toString"
    /\ UNCHANGED <<built, calls, hist, packet, decoded, wire, emitted>>
    /\ UNCHANGED <<transport, ports, raised>>

\* ViscaCommand.fromPacket( cmd.toPacket() )
Decode ==
    /\ HasCommand
    /\ packet' = toPacket(cmd)
    /\ cmd' = afterHeader(cmd)
    /\ decoded' = <<fromPacket(toPacket(cmd))>>
    /\ op' = "decode"
    /\ UNCHANGED <<built, calls, hist, wire, emitted>>
    /\ UNCHANGED <<transport, ports, raised>>

CodecNext ==
    \/ Construct \/ BuildPreset \/ BuildPower \/ BuildCancel \/ BuildPanTiltDirect
    \/ BuildDirect \/ BuildDrive
    \/ FromPacket \/ OnData \/ ToPacket \/ ToString \/ Decode

CodecSpec == CodecInit /\ [][CodecNext]_vars

----------------------------------------------------------------------------
(* TransportSpec: a SerialTransport is constructed, for a port name that   *)
(* the SerialPort constructor accepts or for one it rejects; then the      *)
(* caller starts, restarts, closes and writes in any order while the ports *)
(* open, fail, close and report errors.  The exception of a listener       *)
(* surfaces in the port's event dispatch, outside any call into the        *)
(* transport; the program goes on when its host handles it.                *)

PortNames == {"/dev/ttyUSB0", ""}

\* the commands handed to write: built by the catalog, and decoded from a
\* broadcast frame (its first toPacket changes its broadcast field)
WrittenCommands ==
    {[cmd |-> cmdCameraPower(1, TRUE), built |-> Made("cmdCameraPower", <<1, TRUE>>)],
     [cmd |-> cancel(1, 2), built |-> Made("cancel", <<1, 2>>)],
     [cmd |-> fromPacket(<<BroadcastHeader, MSGTYPE_COMMAND, Terminator>>),
      built |-> Made("fromPacket", <<>>)],
     [cmd |-> fromPacket(<<BroadcastHeader, MSGTYPE_COMMAND, DATATYPE_INTERFACE,
                           DATA_MEMORY_SET, Terminator>>),
      built |-> Made("fromPacket", <<>>)]}

TransportInit ==
    /\ \E portname \in PortNames :
         LET n == NewTransport(portname)
         IN transport = n.transport /\ ports = n.ports
    /\ raised = NotRaised
    /\ \E c \in WrittenCommands : cmd = c.cmd /\ built = c.built
    /\ calls = <<>>
    /\ hist = <<>>
    /\ op = "new"
    /\ packet = <<>>
    /\ decoded = <<>>
    /\ wire = <<>>
    /\ emitted = <<>>

\* transport.start()
Start ==
    /\ Len(ports) < MaxPorts
    /\ LET r == start(transport, ports)
       IN transport' = r.transport /\ ports' = r.ports /\ raised' = r.raised
    /\ op' = "start"
    /\ UNCHANGED <<cmd, calls, hist, built, packet, decoded, wire, emitted>>

\* transport.restart()
Restart ==
    /\ Len(ports) < MaxPorts
    /\ LET r == restart(transport, ports)
       IN transport' = r.transport /\ ports' = r.ports /\ raised' = r.raised
    /\ op' = "restart"
    /\ UNCHANGED <<cmd, calls, hist, built, packet, decoded, wire, emitted>>

\* transport.close()
Close ==
    /\ LET r == close(transport, ports)
       IN transport' = r.transport /\ ports' = r.ports /\ raised' = r.raised
    /\ op' = "close"
    /\ UNCHANGED <<cmd, calls, hist, built, packet, decoded, wire, emitted>>

\* transport.write( cmd )
Write ==
    /\ (transport.serialport # NoPort /\ isOpen(ports[transport.serialport])) =>
          Len(ports[transport.serialport].written) < MaxWrites
    /\ LET r == write(transport, ports, cmd)
       IN ports' = r.ports /\ cmd' = r.cmd /\ raised' = r.raised
    /\ op' = "write"
    /\ UNCHANGED <<transport, calls, hist, built, packet, decoded, wire, emitted>>

\* a port finishes opening and emits 'open'
PortOpened ==
    /\ \E i \in 1..Len(ports) :
         /\ ports[i].state = "opening"
         /\ ports' = [ports EXCEPT ![i] = onOpen([@ EXCEPT !.state = "open"])]
    /\ raised' = Raised("onOpen", "RangeError")
    /\ op' = "onOpen"
    /\ UNCHANGED <<cmd, calls, hist, built, packet, decoded, wire, emitted, transport>>

\* a port fails to open and emits 'error'
PortOpenFailed ==
    /\ \E i \in 1..Len(ports) :
         /\ ports[i].state = "opening"
         /\ ports' = [ports EXCEPT ![i] = onError([@ EXCEPT !.state = "closed"])]
    /\ raised' = Raised("onError", "RangeError")
    /\ op' = "onError"
    /\ UNCHANGED <<cmd, calls, hist, built, packet, decoded, wire, emitted, transport>>

\* a port that is closing, or an open one that gets disconnected, ends
\* closed and emits 'close'
PortClosed ==
    /\ \E i \in 1..Len(ports) :
         /\ ports[i].state \in {"open", "closing"}
         /\ ports' = [ports EXCEPT ![i] = onClose([@ EXCEPT !.state = "closed"])]
    /\ raised' = Raised("onClose", "RangeError")
    /\ op' = "onClose"
    /\ UNCHANGED <<cmd, calls, hist, built, packet, decoded, wire, emitted, transport>>

\* a port reports the failure of a close() call and emits 'error'
PortError ==
    /\ \E i \in 1..Len(ports) :
         /\ ports[i].failing
         /\ ports' = [ports EXCEPT ![i] = onError([@ EXCEPT !.failing = FALSE])]
    /\ raised' = Raised("onError", "RangeError")
    /\ op' = "onError"
    /\ UNCHANGED <<cmd, calls, hist, built, packet, decoded, wire, emitted, transport>>

TransportNext ==
    \/ Start \/ Restart \/ Close \/ Write
    \/ PortOpened \/ PortOpenFailed \/ PortClosed \/ PortError

TransportSpec == TransportInit /\ [][TransportNext]_vars

----------------------------------------------------------------------------
(* UsageSpec: a command is built and encoded, a transport is constructed,  *)
(* and then the command is acknowledged, completed, failed, encoded,       *)
(* printed and sent in any order, the port opening at some point.          *)

UsageInit ==
    /\ \E c \in WrittenCommands :
         /\ cmd = afterHeader(c.cmd)
         /\ packet = toPacket(c.cmd)
         /\ built = c.built
    /\ \E portname \in PortNames :
         LET n == NewTransport(portname)
         IN transport = n.transport /\ ports = n.ports
    /\ raised = NotRaised
    /\ calls = <<>>
    /\ hist = <<>>
    /\ op = "toPacket"
    /\ decoded = <<>>
    /\ wire = <<>>
    /\ emitted = <<>>

\* cmd.send( transport )
Send ==
    /\ (transport.serialport # NoPort /\ isOpen(ports[transport.serialport])) =>
          Len(ports[transport.serialport].written) < MaxWrites
    /\ LET r == send(cmd, transport, ports)
       IN ports' = r.ports /\ cmd' = r.cmd /\ raised' = r.raised
    /\ op' = "send"
    /\ UNCHANGED <<transport, calls, hist, built, packet, decoded, wire, emitted>>

UsageNext ==
    \/ HandleAck \/ HandleError \/ HandleComplete
    \/ ToPacket \/ ToString \/ Send \/ PortOpened

UsageSpec == UsageInit /\ [][UsageNext]_vars

----------------------------------------------------------------------------
(* Properties of the lifecycle (LifeSpec).                                 *)

Terminal(c) == c.status \in {MSGTYPE_COMPLETE, MSGTYPE_ERROR}

\* the calls of log made to the caller's callbacks
RECURSIVE Callbacks(_)
Callbacks(log) ==
    IF log = <<>> THEN <<>>
    ELSE IF Head(log).fn \in {"onAck", "onComplete", "onError"}
         THEN <<Head(log)>> \o Callbacks(Tail(log))
         ELSE Callbacks(Tail(log))

\* the number of invocations of handler h in a history
RECURSIVE Invocations(_, _)
Invocations(hs, h) ==
    IF hs = <<>> THEN 0
    ELSE (IF Head(hs).h = h THEN 1 ELSE 0) + Invocations(Tail(hs), h)

\* C1: once the command is Completed or Error, a further handleAck,
\* handleError or handleComplete call invokes none of onAck, onComplete,
\* onError.
C1_TerminalCallsAreNoOps ==
    [][Terminal(cmd) => Callbacks(calls') = Callbacks(calls)]_vars

\* C2: status starts at Pending and only advances: a Completed or Error
\* command keeps its status, and an Acknowledged one never returns to Pending.
C2_StatusMonotonic ==
    [][/\ (op = "new" => cmd.status = Pending)
       /\ (Terminal(cmd) => cmd'.status = cmd.status)
       /\ (cmd.status = MSGTYPE_ACK => cmd'.status # Pending)]_vars

\* C7: the parser is called only by handleComplete (at most once per
\* handleComplete call, never by handleAck or handleError) and only with a
\* non-empty byte sequence.
C7_ParserOnlyOnNonEmptyData ==
    /\ \A i \in 1..Len(calls) :
          calls[i].fn = "dataParser" =>
              (calls[i].arg.kind = "bytes" /\ Len(calls[i].arg.v) > 0)
    /\ Len(Filter(calls, "dataParser")) <= Invocations(hist, "handleComplete")

\* the argument the claim gives onComplete for handleComplete(raw): none when
\* raw is absent or the parsed data is empty, otherwise dataParser(raw)
ExpectedArg(c, raw) ==
    IF raw = Undefined THEN NoArg
    ELSE IF NoData(Parse(c.dataParser, raw)) THEN NoArg
    ELSE Parse(c.dataParser, raw)

----------------------------------------------------------------------------
(* Properties of the packet codec (CodecSpec).                             *)

\* the fields a decode has to reproduce
WireFields(c) ==
    <<c.source, c.recipient, c.broadcast, c.msgType, c.socket, c.dataType, c.data>>

BodyFields(c) == <<c.msgType, c.socket, c.dataType, c.data>>

\* C3: decoding the packet of a constructed command gives back its source,
\* recipient, broadcast, messageType, socket, dataType and data.
C3_RoundTrip ==
    (op = "decode" /\ built.by = "constructor") =>
        WireFields(decoded[1]) = WireFields(cmd)

\* C4: the first byte of toPacket() is 0x88 for a broadcast command and
\* 0x80 | (source << 4) | (recipient & 0x07) for one addressed to a device.
C4_HeaderByte ==
    (op = "toPacket" /\ built.by = "constructor") =>
        /\ cmd.broadcast => packet[1] = 136
        /\ (~cmd.broadcast /\ cmd.recipient \in 0..7) =>
              packet[1] = 128 + 16 * cmd.source + cmd.recipient

\* C5: a complete frame decodes to the same messageType, socket, dataType
\* and data whether fromPacket gets it with its terminator or onData gets it
\* from the Delimiter, the terminator stripped.
C5_BothFramings ==
    (op = "onData" /\ Len(wire) >= 3) =>
        /\ Len(emitted) = 1
        /\ BodyFields(emitted[1]) = BodyFields(fromPacket(wire))

\* C6: a malformed frame (fewer than 3 bytes, or no terminator at its end)
\* yields no command: fromPacket returns none and onData emits none.
C6_MalformedRejected ==
    Malformed(wire) => (op # "fromPacket" /\ emitted = <<>>)

\* C9: a command whose recipient is a device id is not a broadcast.
C9_RecipientImpliesNotBroadcast ==
    cmd.recipient > -1 => cmd.broadcast = FALSE

\* the number of elements of s equal to x
RECURSIVE Occurrences(_, _)
Occurrences(s, x) ==
    IF s = <<>> THEN 0
    ELSE (IF Head(s) = x THEN 1 ELSE 0) + Occurrences(Tail(s), x)

\* C10: the packet of a command built by a catalog builder holds 0xFF
\* exactly once, as its last byte.
C10_OneTerminator ==
    (op = "toPacket" /\ built.by \notin {"none", "constructor", "fromPacket"}) =>
        /\ packet[Len(packet)] = Terminator
        /\ Occurrences(packet, Terminator) = 1

----------------------------------------------------------------------------
(* Properties of the decoder's category-byte split (CodecSpec).            *)

\* the bytes of a well-formed frame between its message byte and terminator
Body(f) == SubSeq(f, 3, Len(f) - 1)

\* C11 as stated: fromPacket of a frame whose body is one byte gives
\* dataType 0 and that byte as data, and fromPacket of a frame whose body is
\* two bytes always gives a non-zero dataType.
C11_TwoByteBodyHasCategory ==
    (op = "fromPacket" /\ ~Malformed(wire)) =>
        /\ Len(Body(wire)) = 1 => (cmd.dataType = 0 /\ cmd.data = Body(wire))
        /\ Len(Body(wire)) = 2 => cmd.dataType # 0

\* C11, amended: fromPacket of a frame whose body is one byte gives
\* dataType 0 and that byte as data; fromPacket of a frame whose body is two
\* bytes gives the first byte as dataType (zero when that byte is 0x00) and
\* the second byte as data.
C11_CategorySplit ==
    (op = "fromPacket" /\ ~Malformed(wire)) =>
        /\ Len(Body(wire)) = 1 => (cmd.dataType = 0 /\ cmd.data = Body(wire))
        /\ Len(Body(wire)) = 2 =>
              (cmd.dataType = Body(wire)[1] /\ cmd.data = <<Body(wire)[2]>>)

\* C11's cases: a decoded one-byte body, and a decoded two-byte body whose
\* first byte is 0x00.
C11_Witness ==
    /\ op = "fromPacket"
    /\ ~Malformed(wire)
    /\ \/ (Len(Body(wire)) = 1 /\ cmd.data = Body(wire))
       \/ (Len(Body(wire)) = 2 /\ Body(wire)[1] = 0 /\ cmd.dataType = 0)

----------------------------------------------------------------------------
(* Properties of the catalog builders (CodecSpec).                         *)

\* C13: the packet of cmdCameraPower(0, true) is exactly
\* [0x80, 0x01, 0x04, 0x00, 0x02, 0xFF].
C13_PowerOnPacket ==
    (op = "toPacket" /\ built.by = "cmdCameraPower" /\ built.from = <<0, TRUE>>) =>
        packet = <<128, 1, 4, 0, 2, 255>>

\* C13's case: the power-on command for device 0 has been encoded.
C13_Witness ==
    /\ op = "toPacket"
    /\ built.by = "cmdCameraPower"
    /\ built.from = <<0, TRUE>>
    /\ Len(packet) = 6

\* C14: cancel(r, s), for r in 0..7 and s in 0..2, is a command of message
\* type Cancel combined with socket s; its packet is the header 0x80 | r,
\* the message byte Cancel | s and the terminator, with no category byte and
\* no payload.
C14_CancelPacket ==
    (op = "toPacket" /\ built.by = "cancel") =>
        /\ cmd.msgType = MSGTYPE_CANCEL + built.from[2]
        /\ packet = <<128 + built.from[1], MSGTYPE_CANCEL + built.from[2], Terminator>>

\* g is the signed expansion of n: four bytes, one nibble each, that spell
\* the 16-bit two's complement of n, most significant nibble first
IsSignedExpansion(g, n) ==
    /\ Len(g) = 4
    /\ \A i \in 1..4 : g[i] \in 0..15
    /\ g[1] * 4096 + g[2] * 256 + g[3] * 16 + g[4] = (n + 65536) % 65536

\* C15: for x and y in -32768..32767 and any speeds, the payload of
\* cmdCameraPanTiltDirect is the absolute or relative opcode, xspeed,
\* yspeed, the signed expansion of x and the signed expansion of y; and
\* decoding the encoded packet and collapsing the two 4-byte groups gives
\* back (x, y), as for x = -100, y = 200, xspeed = 10, yspeed = 8 on
\* device 3.
C15_PanTiltDirectPayload ==
    (op = "decode" /\ built.by = "cmdCameraPanTiltDirect") =>
        LET a    == built.from
            sent == SubSeq(packet, 4, Len(packet) - 1)
            got  == decoded[1].data
        IN /\ Len(sent) = 11
           /\ sent[1] = (IF a.relative THEN OP_PAN_RELATIVE ELSE OP_PAN_ABSOLUTE)
           /\ sent[2] = a.xspeed
           /\ sent[3] = a.yspeed
           /\ IsSignedExpansion(SubSeq(sent, 4, 7), a.x)
           /\ IsSignedExpansion(SubSeq(sent, 8, 11), a.y)
           /\ Len(got) = 11
           /\ v2si(SubSeq(got, 4, 7)) = a.x
           /\ v2si(SubSeq(got, 8, 11)) = a.y

\* C15's case: the absolute move to (-100, 200) at speeds 10 and 8 on
\* device 3 has been encoded and decoded, and the decoded payload carries
\* -100 as 0x0F 0x0F 0x09 0x0C.
C15_Witness ==
    /\ op = "decode"
    /\ built.by = "cmdCameraPanTiltDirect"
    /\ built.from = [device |-> 3, xspeed |-> 10, yspeed |-> 8,
                     x |-> -100, y |-> 200, relative |-> FALSE]
    /\ SubSeq(decoded[1].data, 4, 7) = <<15, 15, 9, 12>>

\* the opcode of the direct form of each direct-value builder
DirectOpcode(name) ==
    CASE name = "cmdCameraZoomDirect" -> CAM_ZOOM_DIRECT
      [] name = "cmdCameraFocusDirect" -> CAM_FOCUS_DIRECT
      [] name = "cmdCameraGainDirect" -> CAM_GAIN + GainDirectOffset
      [] name = "cmdCameraGainRDirect" -> CAM_RGAIN + GainDirectOffset
      [] name = "cmdCameraGainBDirect" -> CAM_BGAIN + GainDirectOffset
      [] name = "cmdCameraExposureCompensationDirect" -> CAM_EXP_COMP_DIRECT
      [] name = "cmdCameraShutterDirect" -> CAM_SHUTTER_DIRECT
      [] name = "cmdCameraIrisDirect" -> CAM_IRIS_DIRECT
      [] name = "cmdCameraApertureDirect" -> CAM_APERTURE_DIRECT
      [] name = "cmdCameraIDWrite" -> CAM_ID_WRITE

\* g is the unsigned expansion of n: four bytes, one nibble each, that
\* spell n, most significant nibble first
IsUnsignedExpansion(g, n) ==
    /\ Len(g) = 4
    /\ \A i \in 1..4 : g[i] \in 0..15
    /\ g[1] * 4096 + g[2] * 256 + g[3] * 16 + g[4] = n

\* C16: every direct-value builder produces, for every value v in
\* 0..65535, v = 0 included, the payload made of its direct-value opcode
\* and the unsigned expansion of v: never a step or reset payload, never the
\* signed form.
C16_DirectValuePayload ==
    (op = "toPacket" /\ built.by \in DirectBuilders) =>
        LET sent == SubSeq(packet, 4, Len(packet) - 1)
        IN /\ Len(sent) = 5
           /\ sent[1] = DirectOpcode(built.by)
           /\ IsUnsignedExpansion(SubSeq(sent, 2, 5), built.from.value)

\* C19: every element of the packet of a catalog-built command with
\* arguments in their documented ranges is an integer in 0..255; so for
\* cmdCameraZoom / ZoomIn / ZoomOut and cmdCameraFocus / FocusFar /
\* FocusNear with a speed in 0..7.
C19_PacketOfBytes ==
    (op = "toPacket" /\ built.by \notin {"none", "constructor", "fromPacket"}) =>
        \A i \in 1..Len(packet) : packet[i] \in 0..255

\* C20: for every device, direction and speed the packet of cmdCameraFocus
\* differs from the packet of cmdCameraZoom with the same arguments, and the
\* focus packet carries the focus opcode.
C20_FocusDistinctFromZoom ==
    (op = "toPacket" /\ built.by = "cmdCameraFocus") =>
        LET a == built.from
        IN /\ packet # toPacket(cmdCameraZoom(a.device, a.direction, a.speed))
           /\ packet[4] = CAM_FOCUS

----------------------------------------------------------------------------
(* Properties of the object after its build.                               *)

\* C18: for every well-formed frame p (a header with bit 7 set, a message
\* byte, a body, the terminator 0xFF), broadcast frames with header 0x88 and
\* bodies that start with 0x00 included, fromPacket(p).toPacket() equals p
\* byte for byte.
C18_ReencodeIsInverse ==
    (op = "toPacket" /\ built.by = "fromPacket" /\ ~Malformed(wire)) =>
        packet = wire

----------------------------------------------------------------------------
(* Properties of the transport (TransportSpec).                            *)

\* C12: write(cmd) writes cmd.toPacket() to the link only while the link is
\* open; a write() while it is not open writes nothing, raises no error and
\* changes no transport state, wherever it falls among the open, close and
\* error events.
C12_WriteOnlyWhileOpen ==
    [][op' = "write" =>
         /\ raised' = NotRaised
         /\ transport' = transport
         /\ IF transport.serialport # NoPort /\ isOpen(ports[transport.serialport])
            THEN ports' = [ports EXCEPT ![transport.serialport].written =
                                             Append(@, toPacket(cmd))]
            ELSE ports' = ports]_vars

\* the packets written to the ports so far
AllWritten == UNION {{ports[i].written[k] : k \in 1..Len(ports[i].written)} :
                        i \in 1..Len(ports)}

\* C17: once a command is built, its encoded form does not change: after
\* any sequence of handleAck, handleError, handleComplete, toPacket,
\* toString and send, toPacket() returns the bytes it returned right after
\* the build, and those are the bytes send writes; the handlers change the
\* status only.
C17_EncodedFormImmutable ==
    [][/\ toPacket(cmd') = packet
       /\ packet' = packet
       /\ AllWritten' \subseteq {packet}
       /\ op' \in {"handleAck", "handleError", "handleComplete"} =>
             [cmd' EXCEPT !.status = cmd.status] = cmd]_vars

\* C17's case: a command decoded from a broadcast frame has been
\* acknowledged and completed, sent over the open port and encoded again.
C17_Witness ==
    /\ built.by = "fromPacket"
    /\ cmd.status = MSGTYPE_COMPLETE
    /\ Len(hist) >= 2
    /\ AllWritten # {}
    /\ op = "toPacket"

\* the ports created so far that have not been closed
LivePorts == {i \in 1..Len(ports) : ports[i].state # "closed"}

\* C21: a SerialTransport owns at most one live serial port: however
\* start(), restart() and close() fall among the ports' open, close and
\* error events, start() creates no second port while a port created
\* before has not been closed, also when it is called again before the
\* 'open' event.
C21_OneLivePort ==
    Cardinality(LivePorts) <= 1

====
